---- MODULE Spec2Model ----
(***************************************************************************)
(* Model of the commodities pallet (src/src/lib.rs): the five storage      *)
(* items, the UniqueAssets implementation (mint, burn, transfer) and the   *)
(* three dispatchables that wrap it.                                       *)
(***************************************************************************)
EXTENDS Integers, Sequences, FiniteSets, TLC

\* ------------------------------------------------------------------ bounds
\* Accounts are 0..MaxAccount; 0 is T::AccountId::default().
MaxAccount == 2
\* Commodity infos are 1..NumInfos.
NumInfos == 4
\* Successful burns explored per run.
MaxBurned == 1
\* Config::CommodityLimit and Config::UserCommodityLimit (runtime-configured).
CommodityLimit == 3
UserCommodityLimit == 2

\* --------------------------------------------------------------- constants
HashModulus == 7
HashFactor == 3

DefaultAccount == 0
Accounts == 0..MaxAccount
Infos == 1..NumInfos
\* Every commodity id a caller can name; only hash_of(info) ids can be minted.
Ids == 1..(HashModulus - 1)
Root == [signed |-> FALSE, who |-> DefaultAccount]
Signed(a) == [signed |-> TRUE, who |-> a]
Origins == {Root} \cup {Signed(a) : a \in Accounts}
\* Origins tried on Pallet::mint: the admin and one signed account.
MintOrigins == {Root, Signed(MaxAccount)}

\* T::Hashing::hash_of: deterministic, collision-free, not order preserving.
hash_of(info) == (info * HashFactor) % HashModulus

VARIABLES
    Total,                  \* StorageValue u128
    Burned,                 \* StorageValue u128
    TotalForAccount,        \* StorageMap AccountId -> u64, ValueQuery
    CommoditiesForAccount,  \* StorageMap AccountId -> Vec<CommodityId>, ValueQuery
    AccountForCommodity,    \* StorageMap CommodityId -> AccountId, ValueQuery
    deposited,              \* kinds of the events deposited by the latest call
    panicked,               \* an expect() or an arithmetic check has aborted execution
    last,                   \* the latest call: level, operation (ledger level), result,
                            \* id returned by mint or removed by burn, and whether
                            \* a mint recreated the id the call before it burned
    minted,                 \* successful mints so far, and how many of them the
                            \* genesis build made
    event_count,            \* Minted and Burned events deposited so far
    event_owner             \* per id, the account of the latest event about it

vars == <<Total, Burned, TotalForAccount, CommoditiesForAccount,
          AccountForCommodity, deposited, panicked, last,
          minted, event_count, event_owner>>

\* A storage map with no value under a key.
NoEntry == -1

\* The five storage items as one value.
Ledger ==
    [Total |-> Total, Burned |-> Burned, TotalForAccount |-> TotalForAccount,
     CommoditiesForAccount |-> CommoditiesForAccount,
     AccountForCommodity |-> AccountForCommodity]

\* ----------------------------------------------------------------- getters
contains_key(s, id) == s.AccountForCommodity[id] # NoEntry

\* ValueQuery getter: the default account when the key is absent.
account_for_commodity(s, id) ==
    IF s.AccountForCommodity[id] = NoEntry THEN DefaultAccount
    ELSE s.AccountForCommodity[id]

owner_of(s, id) == account_for_commodity(s, id)

total(s) == s.Total

burned(s) == s.Burned

total_for_account(s, a) == s.TotalForAccount[a]

commodities_for_account(s, a) == s.CommoditiesForAccount[a]

\* ------------------------------------------------------------- Vec helpers
\* slice::binary_search on a Vec, 0-based positions: the halving loop.
RECURSIVE bsearch_loop(_, _, _, _)
bsearch_loop(v, x, base, size) ==
    IF size > 1
    THEN LET half == size \div 2
             mid == base + half
         IN bsearch_loop(v, x, IF v[mid + 1] > x THEN base ELSE mid, size - half)
    ELSE base

binary_search(v, x) ==
    IF Len(v) = 0 THEN [found |-> FALSE, pos |-> 0]
    ELSE LET base == bsearch_loop(v, x, 0, Len(v))
         IN IF v[base + 1] = x THEN [found |-> TRUE, pos |-> base]
            ELSE [found |-> FALSE,
                  pos |-> IF v[base + 1] < x THEN base + 1 ELSE base]

\* Vec::insert(pos, x), 0-based.
vec_insert(v, pos, x) ==
    SubSeq(v, 1, pos) \o <<x>> \o SubSeq(v, pos + 1, Len(v))

\* Vec::remove(pos), 0-based.
vec_remove(v, pos) ==
    SubSeq(v, 1, pos) \o SubSeq(v, pos + 2, Len(v))

\* Variant: the id is pushed at the end of the list.
insert_sorted_push(v, id) ==
    LET r == binary_search(v, id)
    IN IF r.found THEN v ELSE Append(v, id)

\* The closure of mint and transfer: insert at the sorted position, or leave
\* the list alone when the id is already there.
insert_sorted(v, id) ==
    LET r == binary_search(v, id)
    IN IF r.found THEN v ELSE vec_insert(v, r.pos, id)

\* ------------------------------------------------------- storage mutations
\* Total::mutate(|total| *total += 1)
total_inc(t) == t + 1

\* Variant: the decrement of Total is left out.
total_dec_missing(t) == t

\* Total::mutate(|total| *total -= 1)
total_dec(t) == t - 1

\* Variant: a burn is not counted.
burned_inc_missing(b) == b

\* Burned::mutate(|total| *total += 1)
burned_inc(b) == b + 1

\* TotalForAccount::mutate(account, |total| *total += 1)
account_inc(m, a) == [m EXCEPT ![a] = @ + 1]

\* Variant: the decrement of the owner's count is left out.
account_dec_missing(m, a) == m

\* TotalForAccount::mutate(account, |total| *total -= 1)
account_dec(m, a) == [m EXCEPT ![a] = @ - 1]

\* Variant: the reverse index is not written.
insert_owner_missing(m, id, a) == m

\* AccountForCommodity::insert(commodity_id, account)
insert_owner(m, id, a) == [m EXCEPT ![id] = a]

\* Variant: the reverse index keeps the burned id.
remove_owner_missing(m, id) == m

\* AccountForCommodity::remove(commodity_id)
remove_owner(m, id) == [m EXCEPT ![id] = NoEntry]

\* Variant: existence tested through the ValueQuery getter's default.
mint_check_new_by_default(s, id) == account_for_commodity(s, id) = DefaultAccount

\* Variant: no id is new once any asset has been burned.
mint_check_new_never_burned(s, id) == ~contains_key(s, id) /\ burned(s) = 0

\* Variant: the per-account check compares with the global limit.
mint_check_user_wrong_limit(s, a) == total_for_account(s, a) < CommodityLimit

\* Variant: the global check admits a mint at the limit.
mint_check_total_inclusive(s) == total(s) <= CommodityLimit

\* Variant: the global check rejects the last admissible mint.
mint_check_total_early(s) == total(s) + 1 < CommodityLimit

\* Variant: the destination check admits a transfer into a full account.
transfer_check_user_inclusive(s, a) == total_for_account(s, a) <= UserCommodityLimit

\* The three admission checks of mint and the one of transfer.
mint_check_new(s, id) == ~contains_key(s, id)

mint_check_user(s, a) == total_for_account(s, a) < UserCommodityLimit

mint_check_total(s) == total(s) < CommodityLimit

transfer_check_user(s, a) == total_for_account(s, a) < UserCommodityLimit

\* ------------------------------------------------------------ UniqueAssets
\* Result of a ledger operation: new storage, Ok or the error, the returned
\* id (mint) and whether execution aborted.
Outcome(s, res, id, fatal) == [s |-> s, res |-> res, id |-> id, fatal |-> fatal]

\* Variant: the global cap is tested before the per-account cap.
mint_total_first(s, owner_account, commodity_info) ==
    LET commodity_id == hash_of(commodity_info)
    IN IF ~mint_check_new(s, commodity_id)
       THEN Outcome(s, "CommodityExists", 0, FALSE)
       ELSE IF ~mint_check_total(s)
       THEN Outcome(s, "TooManyCommodities", 0, FALSE)
       ELSE IF ~mint_check_user(s, owner_account)
       THEN Outcome(s, "TooManyCommoditiesForAccount", 0, FALSE)
       ELSE Outcome(
         [Total |-> total_inc(s.Total),
          Burned |-> s.Burned,
          TotalForAccount |-> account_inc(s.TotalForAccount, owner_account),
          CommoditiesForAccount |->
              [s.CommoditiesForAccount EXCEPT
                  ![owner_account] = insert_sorted(@, commodity_id)],
          AccountForCommodity |->
              insert_owner(s.AccountForCommodity, commodity_id, owner_account)],
         "Ok", commodity_id, FALSE)

mint(s, owner_account, commodity_info) ==
    LET commodity_id == hash_of(commodity_info)
    IN IF ~mint_check_new(s, commodity_id)
       THEN Outcome(s, "CommodityExists", 0, FALSE)
       ELSE IF ~mint_check_user(s, owner_account)
       THEN Outcome(s, "TooManyCommoditiesForAccount", 0, FALSE)
       ELSE IF ~mint_check_total(s)
       THEN Outcome(s, "TooManyCommodities", 0, FALSE)
       ELSE Outcome(
         [Total |-> total_inc(s.Total),
          Burned |-> s.Burned,
          TotalForAccount |-> account_inc(s.TotalForAccount, owner_account),
          CommoditiesForAccount |->
              [s.CommoditiesForAccount EXCEPT
                  ![owner_account] = insert_sorted(@, commodity_id)],
          AccountForCommodity |->
              insert_owner(s.AccountForCommodity, commodity_id, owner_account)],
         "Ok", commodity_id, FALSE)

\* The fatal branch covers the expect() on the binary search and a `-= 1` on
\* a counter that is 0.
burn(s, commodity_id) ==
    LET owner == owner_of(s, commodity_id)
        r == binary_search(s.CommoditiesForAccount[owner], commodity_id)
    IN IF ~(owner # DefaultAccount)
       THEN Outcome(s, "NonexistentCommodity", 0, FALSE)
       ELSE IF s.Total = 0 \/ s.TotalForAccount[owner] = 0 \/ ~r.found
       THEN Outcome(s, "panic", 0, TRUE)
       ELSE Outcome(
         [Total |-> total_dec(s.Total),
          Burned |-> burned_inc(s.Burned),
          TotalForAccount |-> account_dec(s.TotalForAccount, owner),
          CommoditiesForAccount |->
              [s.CommoditiesForAccount EXCEPT ![owner] = vec_remove(@, r.pos)],
          AccountForCommodity |-> remove_owner(s.AccountForCommodity, commodity_id)],
         "Ok", 0, FALSE)

\* Variant: the destination's cap is tested before existence.
transfer_cap_first(s, dest_account, commodity_id) ==
    LET owner == owner_of(s, commodity_id)
        r == binary_search(s.CommoditiesForAccount[owner], commodity_id)
        counted == account_inc(account_dec(s.TotalForAccount, owner), dest_account)
        removed == [s.CommoditiesForAccount EXCEPT
                       ![owner] = vec_remove(@, r.pos)]
    IN IF ~transfer_check_user(s, dest_account)
       THEN Outcome(s, "TooManyCommoditiesForAccount", 0, FALSE)
       ELSE IF ~(owner # DefaultAccount)
       THEN Outcome(s, "NonexistentCommodity", 0, FALSE)
       ELSE IF s.TotalForAccount[owner] = 0 \/ ~r.found
       THEN Outcome(s, "panic", 0, TRUE)
       ELSE Outcome(
         [Total |-> s.Total,
          Burned |-> s.Burned,
          TotalForAccount |-> counted,
          CommoditiesForAccount |->
              [removed EXCEPT ![dest_account] = insert_sorted(@, commodity_id)],
          AccountForCommodity |->
              insert_owner(s.AccountForCommodity, commodity_id, dest_account)],
         "Ok", 0, FALSE)

transfer(s, dest_account, commodity_id) ==
    LET owner == owner_of(s, commodity_id)
        r == binary_search(s.CommoditiesForAccount[owner], commodity_id)
        counted == account_inc(account_dec(s.TotalForAccount, owner), dest_account)
        removed == [s.CommoditiesForAccount EXCEPT
                       ![owner] = vec_remove(@, r.pos)]
    IN IF ~(owner # DefaultAccount)
       THEN Outcome(s, "NonexistentCommodity", 0, FALSE)
       ELSE IF ~transfer_check_user(s, dest_account)
       THEN Outcome(s, "TooManyCommoditiesForAccount", 0, FALSE)
       ELSE IF s.TotalForAccount[owner] = 0 \/ ~r.found
       THEN Outcome(s, "panic", 0, TRUE)
       ELSE Outcome(
         [Total |-> s.Total,
          Burned |-> s.Burned,
          TotalForAccount |-> counted,
          CommoditiesForAccount |->
              [removed EXCEPT ![dest_account] = insert_sorted(@, commodity_id)],
          AccountForCommodity |->
              insert_owner(s.AccountForCommodity, commodity_id, dest_account)],
         "Ok", 0, FALSE)

\* ----------------------------------------------------------- origin checks
\* T::CommodityAdmin::ensure_origin: the admin origin is Root.
ensure_admin(origin) == origin = Root

\* frame_system::ensure_signed.
ensure_signed(origin) == origin.signed

\* ------------------------------------------------------------------ events
Minted(id, a) == [kind |-> "Minted", id |-> id, account |-> a]
BurnedEvent(id) == [kind |-> "Burned", id |-> id, account |-> DefaultAccount]
Transferred(id, a) == [kind |-> "Transferred", id |-> id, account |-> a]

\* The log of deposited events, kept as the number of Minted and of Burned
\* events and, per id, the account named by the latest event about it (none
\* after Burned).
EventKinds == {"Minted", "Burned"}

count_events(c, events) ==
    IF events = <<>> THEN c
    ELSE [k \in EventKinds |->
            c[k] + Cardinality({i \in 1..Len(events) : events[i].kind = k})]

RECURSIVE announce(_, _)
announce(m, events) ==
    IF events = <<>> THEN m
    ELSE LET e == Head(events)
         IN announce([m EXCEPT ![e.id] = IF e.kind = "Burned" THEN NoEntry
                                         ELSE e.account],
                     Tail(events))

\* ----------------------------------------------------------- dispatchables
\* Result of a dispatchable: the ledger outcome and the events deposited.
Dispatched(o, events) == [o |-> o, events |-> events]

\* Variant: a caller passes when it holds any commodity.
is_owner_any_holder(s, who, commodity_id) == total_for_account(s, who) > 0

\* ensure!(who == Self::account_for_commodity(&commodity_id), NotCommodityOwner)
is_owner(s, who, commodity_id) == who = account_for_commodity(s, commodity_id)

dispatch_mint(s, origin, owner_account, commodity_info) ==
    LET o == IF ~ensure_admin(origin)
             THEN Outcome(s, "BadOrigin", 0, FALSE)
             ELSE mint(s, owner_account, commodity_info)
    IN Dispatched(o, IF o.res = "Ok" THEN <<Minted(o.id, owner_account)>>
                     ELSE <<>>)

dispatch_burn(s, origin, commodity_id) ==
    LET o == IF ~ensure_signed(origin)
             THEN Outcome(s, "BadOrigin", 0, FALSE)
             ELSE IF ~is_owner(s, origin.who, commodity_id)
             THEN Outcome(s, "NotCommodityOwner", 0, FALSE)
             ELSE burn(s, commodity_id)
    IN Dispatched(o, IF o.res = "Ok" THEN <<BurnedEvent(commodity_id)>>
                     ELSE <<>>)

\* Variant: the Transferred event names the caller, not the new owner.
dispatch_transfer_names_caller(s, origin, dest_account, commodity_id) ==
    LET o == IF ~ensure_signed(origin)
             THEN Outcome(s, "BadOrigin", 0, FALSE)
             ELSE IF ~is_owner(s, origin.who, commodity_id)
             THEN Outcome(s, "NotCommodityOwner", 0, FALSE)
             ELSE transfer(s, dest_account, commodity_id)
    IN Dispatched(o, IF o.res = "Ok"
                     THEN <<Transferred(commodity_id, origin.who)>>
                     ELSE <<>>)

dispatch_transfer(s, origin, dest_account, commodity_id) ==
    LET o == IF ~ensure_signed(origin)
             THEN Outcome(s, "BadOrigin", 0, FALSE)
             ELSE IF ~is_owner(s, origin.who, commodity_id)
             THEN Outcome(s, "NotCommodityOwner", 0, FALSE)
             ELSE transfer(s, dest_account, commodity_id)
    IN Dispatched(o, IF o.res = "Ok"
                     THEN <<Transferred(commodity_id, dest_account)>>
                     ELSE <<>>)

\* ----------------------------------------------------------------- actions
Call(level, op, res, ret) ==
    [level |-> level, op |-> op, res |-> res, ret |-> ret, again |-> FALSE]

\* A successful mint of the id that the call before it burned.
Reminted(o) ==
    /\ o.res = "Ok"
    /\ last.op = "burn" /\ last.res = "Ok" /\ last.ret = o.id

\* Store the outcome of a call and what the dispatchable deposited.
Commit(o, events, call) ==
    /\ o.s.Burned <= MaxBurned
    /\ Total' = o.s.Total
    /\ Burned' = o.s.Burned
    /\ TotalForAccount' = o.s.TotalForAccount
    /\ CommoditiesForAccount' = o.s.CommoditiesForAccount
    /\ AccountForCommodity' = o.s.AccountForCommodity
    /\ deposited' = [k \in 1..Len(events) |-> events[k].kind]
    /\ panicked' = o.fatal
    /\ last' = call
    /\ event_count' = count_events(event_count, events)
    /\ event_owner' = announce(event_owner, events)

\* A successful mint is counted, with its origin in the genesis build or not.
count_mint(o, genesis) ==
    IF o.res = "Ok"
    THEN [total |-> minted.total + 1,
          genesis |-> minted.genesis + (IF genesis THEN 1 ELSE 0)]
    ELSE minted

Init ==
    /\ Total = 0
    /\ Burned = 0
    /\ TotalForAccount = [a \in Accounts |-> 0]
    /\ CommoditiesForAccount = [a \in Accounts |-> <<>>]
    /\ AccountForCommodity = [id \in Ids |-> NoEntry]
    /\ deposited = <<>>
    /\ panicked = FALSE
    /\ last = Call("init", "none", "Ok", 0)
    /\ minted = [total |-> 0, genesis |-> 0]
    /\ event_count = [k \in EventKinds |-> 0]
    /\ event_owner = [id \in Ids |-> NoEntry]

\* <Module as UniqueAssets>::mint called directly (genesis build, other pallets).
Mint(owner_account, commodity_info) ==
    /\ ~panicked
    /\ LET o == mint(Ledger, owner_account, commodity_info)
       IN /\ Commit(o, <<>>, [Call("ledger", "mint", o.res, o.id)
                                 EXCEPT !.again = Reminted(o)])
          /\ minted' = count_mint(o, FALSE)

\* <Module as UniqueAssets>::burn called directly.
Burn(commodity_id) ==
    /\ ~panicked
    /\ LET o == burn(Ledger, commodity_id)
       IN /\ Commit(o, <<>>,
                    Call("ledger", "burn", o.res,
                         IF o.res = "Ok" THEN commodity_id ELSE 0))
          /\ minted' = minted

\* <Module as UniqueAssets>::transfer called directly.
Transfer(dest_account, commodity_id) ==
    /\ ~panicked
    /\ LET o == transfer(Ledger, dest_account, commodity_id)
       IN /\ Commit(o, <<>>, Call("ledger", "transfer", o.res, 0))
          /\ minted' = minted

\* Pallet::mint dispatchable.
PalletMint(origin, owner_account, commodity_info) ==
    /\ ~panicked
    /\ LET d == dispatch_mint(Ledger, origin, owner_account, commodity_info)
       IN /\ Commit(d.o, d.events, Call("dispatch", "extrinsic", d.o.res, 0))
          /\ minted' = count_mint(d.o, FALSE)

\* Pallet::burn dispatchable.
PalletBurn(origin, commodity_id) ==
    /\ ~panicked
    /\ LET d == dispatch_burn(Ledger, origin, commodity_id)
       IN /\ Commit(d.o, d.events, Call("dispatch", "extrinsic", d.o.res, 0))
          /\ minted' = minted

\* Pallet::transfer dispatchable.
PalletTransfer(origin, dest_account, commodity_id) ==
    /\ ~panicked
    /\ LET d == dispatch_transfer(Ledger, origin, dest_account, commodity_id)
       IN /\ Commit(d.o, d.events, Call("dispatch", "extrinsic", d.o.res, 0))
          /\ minted' = minted

\* GenesisConfig::balances of the chain spec: one asset for one account.
GenesisBalances == <<[who |-> MaxAccount, asset |-> NumInfos]>>

EmptyLedger ==
    [Total |-> 0, Burned |-> 0,
     TotalForAccount |-> [a \in Accounts |-> 0],
     CommoditiesForAccount |-> [a \in Accounts |-> <<>>],
     AccountForCommodity |-> [id \in Ids |-> NoEntry]]

\* GenesisBuild::build: the balances are minted in order through the ledger,
\* without events; a mint that fails panics.
RECURSIVE build(_, _)
build(o, balances) ==
    IF balances = <<>> \/ o.res # "Ok" THEN o
    ELSE build(mint(o.s, Head(balances).who, Head(balances).asset),
               Tail(balances))

\* The state after construction from GenesisBalances.
GenesisInit ==
    LET o == build(Outcome(EmptyLedger, "Ok", 0, FALSE), GenesisBalances)
    IN /\ Total = o.s.Total
       /\ Burned = o.s.Burned
       /\ TotalForAccount = o.s.TotalForAccount
       /\ CommoditiesForAccount = o.s.CommoditiesForAccount
       /\ AccountForCommodity = o.s.AccountForCommodity
       /\ deposited = <<>>
       /\ panicked = (o.res # "Ok")
       /\ last = Call("genesis", "build", o.res, 0)
       /\ minted = [total |-> o.s.Total, genesis |-> o.s.Total]
       /\ event_count = [k \in EventKinds |-> 0]
       /\ event_owner = [id \in Ids |-> NoEntry]

\* The ledger driven through the UniqueAssets interface.
\* An argument that the ledger never reads before it rejects a call stands
\* for all its values: mint reads owner_account only after the id has proved
\* new, transfer reads dest_account only after the existence test.
LedgerMintOwners(commodity_info) ==
    IF mint_check_new(Ledger, hash_of(commodity_info))
    THEN Accounts
    ELSE {DefaultAccount}

LedgerTransferDests(commodity_id) ==
    IF owner_of(Ledger, commodity_id) # DefaultAccount
    THEN Accounts
    ELSE {DefaultAccount}

Next ==
    \/ \E i \in Infos : \E a \in LedgerMintOwners(i) : Mint(a, i)
    \/ \E id \in Ids : Burn(id)
    \/ \E id \in Ids : \E a \in LedgerTransferDests(id) : Transfer(a, id)

Spec == Init /\ [][Next]_vars

\* The same for the dispatchables: mint reads owner_account and
\* commodity_info only after ensure_origin, burn and transfer read
\* commodity_id only after ensure_signed, and transfer hands dest_account to
\* the ledger only after the ownership test.
MintOwners(origin, commodity_info) ==
    IF ensure_admin(origin)
    THEN LedgerMintOwners(commodity_info)
    ELSE {DefaultAccount}

MintInfos(origin) == IF ensure_admin(origin) THEN Infos ELSE {1}

CallIds(origin) == IF ensure_signed(origin) THEN Ids ELSE {1}

TransferDests(origin, commodity_id) ==
    IF ensure_signed(origin) /\ is_owner(Ledger, origin.who, commodity_id)
    THEN LedgerTransferDests(commodity_id)
    ELSE {DefaultAccount}

\* The ledger driven through the pallet's dispatchables.
DispatchNext ==
    \/ \E g \in MintOrigins :
         \E i \in MintInfos(g) :
           \E a \in MintOwners(g, i) : PalletMint(g, a, i)
    \/ \E g \in Origins :
         \E id \in CallIds(g) : PalletBurn(g, id)
    \/ \E g \in Origins :
         \E id \in CallIds(g) :
           \E a \in TransferDests(g, id) : PalletTransfer(g, a, id)

DispatchSpec == Init /\ [][DispatchNext]_vars

\* The pallet on a chain whose genesis build has minted GenesisBalances.
GenesisSpec == GenesisInit /\ [][DispatchNext]_vars

\* --------------------------------------------------------- derived notions
\* Elements of a sequence.
Range(v) == {v[k] : k \in 1..Len(v)}

RECURSIVE SumCounts(_, _)
SumCounts(f, S) ==
    IF S = {} THEN 0
    ELSE LET a == CHOOSE x \in S : TRUE
         IN f[a] + SumCounts(f, S \ {a})

Keys(s) == {id \in Ids : contains_key(s, id)}

TypeOK ==
    /\ Total \in Nat
    /\ Burned \in 0..MaxBurned
    /\ TotalForAccount \in [Accounts -> Nat]
    /\ \A a \in Accounts : CommoditiesForAccount[a] \in Seq(Ids)
    /\ AccountForCommodity \in [Ids -> Accounts \cup {NoEntry}]
    /\ panicked \in BOOLEAN
    /\ minted \in [total : Nat, genesis : Nat]
    /\ event_count \in [EventKinds -> Nat]
    /\ event_owner \in [Ids -> Accounts \cup {NoEntry}]

\* Pre/post views of one step.
Exists(s, id) == contains_key(s, id)
Assets(s, a) == Range(commodities_for_account(s, a))

\* Every account other than those in S keeps its count and its list.
OthersUnchanged(s, t, S) ==
    \A a \in Accounts \ S :
        /\ total_for_account(t, a) = total_for_account(s, a)
        /\ commodities_for_account(t, a) = commodities_for_account(s, a)

\* ------------------------------------------------------------------ claims
\* C1: in every reachable state the forward and the reverse index agree: id is
\* in CommoditiesForAccount[a] exactly when AccountForCommodity holds id
\* with value a.
C1_IndicesAgree ==
    \A id \in Ids, a \in Accounts :
        (id \in Range(CommoditiesForAccount[a])) <=> (AccountForCommodity[id] = a)

\* C1 witness: after a successful transfer two accounts hold assets, one of
\* them the default account.
C1_Witness ==
    /\ last.op = "transfer" /\ last.res = "Ok"
    /\ Len(CommoditiesForAccount[DefaultAccount]) > 0
    /\ \E a \in Accounts \ {DefaultAccount} : Len(CommoditiesForAccount[a]) = 2
    /\ Burned > 0

\* C2: in every reachable state total_for_account(a) is the length of
\* commodities_for_account(a), for every account a.
C2_CountIsLength ==
    \A a \in Accounts :
        total_for_account(Ledger, a) = Len(commodities_for_account(Ledger, a))

\* C2 witness: an account holds two assets after a mint and another one asset.
C2_Witness ==
    /\ last.op = "mint" /\ last.res = "Ok"
    /\ \E a, b \in Accounts :
        /\ a # b
        /\ total_for_account(Ledger, a) = 2
        /\ total_for_account(Ledger, b) = 1

\* C3: in every reachable state total() is the number of keys of
\* AccountForCommodity and the sum of total_for_account over all accounts.
C3_TotalIsKeysAndSum ==
    /\ total(Ledger) = Cardinality(Keys(Ledger))
    /\ total(Ledger) = SumCounts(TotalForAccount, Accounts)

\* C3 witness: after a successful burn, assets remain with two accounts.
C3_Witness ==
    /\ last.op = "burn" /\ last.res = "Ok"
    /\ Total = 2
    /\ Cardinality({a \in Accounts : TotalForAccount[a] > 0}) = 2

\* C4: in every reachable state every account's list is strictly ascending
\* by id (hence free of duplicates).
C4_StrictlyAscending ==
    \A a \in Accounts :
        \A k \in 1..(Len(CommoditiesForAccount[a]) - 1) :
            CommoditiesForAccount[a][k] < CommoditiesForAccount[a][k + 1]

\* C4 witness: a two-element list whose smaller id was minted from the larger
\* info, so it was not built by appending in minting order alone.
C4_Witness ==
    \E a \in Accounts :
        /\ Len(CommoditiesForAccount[a]) = 2
        /\ \E i, j \in Infos :
            /\ i < j
            /\ CommoditiesForAccount[a] = <<hash_of(j), hash_of(i)>>

\* C5: the caps are never exceeded: total() <= CommodityLimit and
\* total_for_account(a) <= UserCommodityLimit for every account.
C5_CapsHold ==
    /\ total(Ledger) <= CommodityLimit
    /\ \A a \in Accounts : total_for_account(Ledger, a) <= UserCommodityLimit

\* C5 witness: both caps are met at once, after a transfer filled an account.
C5_Witness ==
    /\ last.op = "transfer" /\ last.res = "Ok"
    /\ Total = CommodityLimit
    /\ \E a \in Accounts : TotalForAccount[a] = UserCommodityLimit

\* C6: a mint of a new id to an owner below its cap, with the global cap not
\* reached, succeeds and returns hash_of(info); the owner is recorded, total
\* and the owner's count grow by 1, the id is in the owner's list, and
\* burned and every other account's count and list are unchanged.
C6_MintSucceeds ==
    \A owner \in Accounts, info \in Infos :
        (/\ ~Exists(Ledger, hash_of(info))
         /\ total_for_account(Ledger, owner) < UserCommodityLimit
         /\ total(Ledger) < CommodityLimit)
        => LET o == mint(Ledger, owner, info)
           IN /\ o.res = "Ok"
              /\ o.id = hash_of(info)
              /\ ~o.fatal
              /\ Exists(o.s, hash_of(info))
              /\ owner_of(o.s, hash_of(info)) = owner
              /\ total(o.s) = total(Ledger) + 1
              /\ total_for_account(o.s, owner)
                     = total_for_account(Ledger, owner) + 1
              /\ Assets(o.s, owner) = Assets(Ledger, owner) \cup {hash_of(info)}
              /\ burned(o.s) = burned(Ledger)
              /\ OthersUnchanged(Ledger, o.s, {owner})
              /\ \A id \in Ids \ {hash_of(info)} :
                     o.s.AccountForCommodity[id] = AccountForCommodity[id]

\* C6 witness: a ledger-level mint returned an id that its owner now holds
\* next to an earlier asset, while another account holds one too, and a
\* further mint is still admissible.
C6_Witness ==
    /\ last.level = "ledger" /\ last.op = "mint" /\ last.res = "Ok"
    /\ last.ret \in {hash_of(i) : i \in Infos}
    /\ \E a \in Accounts :
        /\ AccountForCommodity[last.ret] = a
        /\ TotalForAccount[a] = 2
    /\ Total = 2
    /\ Burned > 0

\* C7: minting info whose id already exists fails with CommodityExists for
\* any target owner and leaves the five storage items as they were.
C7_MintDuplicate ==
    \A owner \in Accounts, info \in Infos :
        Exists(Ledger, hash_of(info))
        => LET o == mint(Ledger, owner, info)
           IN o.res = "CommodityExists" /\ o.s = Ledger /\ ~o.fatal

\* C7 witness: a mint was rejected with CommodityExists while the default
\* account and another account both hold assets.
C7_Witness ==
    /\ last.op = "mint" /\ last.res = "CommodityExists"
    /\ TotalForAccount[DefaultAccount] > 0
    /\ \E a \in Accounts \ {DefaultAccount} : TotalForAccount[a] > 0

\* C8: a mint of a new id to an owner at its cap fails with
\* TooManyCommoditiesForAccount and changes nothing, while a mint of a new id
\* to another account below the cap, the global cap not reached, succeeds.
C8_PerOwnerCap ==
    \A owner \in Accounts, info \in Infos :
        (/\ ~Exists(Ledger, hash_of(info))
         /\ total_for_account(Ledger, owner) >= UserCommodityLimit)
        => /\ LET o == mint(Ledger, owner, info)
              IN o.res = "TooManyCommoditiesForAccount" /\ o.s = Ledger
           /\ \A other \in Accounts \ {owner} :
                (/\ total_for_account(Ledger, other) < UserCommodityLimit
                 /\ total(Ledger) < CommodityLimit)
                => LET o == mint(Ledger, other, info)
                   IN /\ o.res = "Ok"
                      /\ Exists(o.s, hash_of(info))
                      /\ owner_of(o.s, hash_of(info)) = other

\* C8 witness: a mint was just rejected for a full account while another
\* account is below the cap and the global cap is not reached.
C8_Witness ==
    /\ last.op = "mint" /\ last.res = "TooManyCommoditiesForAccount"
    /\ \E a \in Accounts : TotalForAccount[a] = UserCommodityLimit
    /\ \E b \in Accounts : TotalForAccount[b] < UserCommodityLimit
    /\ Total < CommodityLimit

\* C9: at the global cap a mint of a new id to an account below its own cap
\* fails with TooManyCommodities and changes nothing; once a burn has
\* lowered total() below the limit, such a mint succeeds again.
C9_GlobalCap ==
    total(Ledger) >= CommodityLimit
    => /\ \A owner \in Accounts, info \in Infos :
            (/\ ~Exists(Ledger, hash_of(info))
             /\ total_for_account(Ledger, owner) < UserCommodityLimit)
            => LET o == mint(Ledger, owner, info)
               IN o.res = "TooManyCommodities" /\ o.s = Ledger
       /\ \A id \in Ids :
            LET b == burn(Ledger, id)
            IN b.res = "Ok"
               => /\ total(b.s) < CommodityLimit
                  /\ \A owner \in Accounts, info \in Infos :
                       (/\ ~Exists(b.s, hash_of(info))
                        /\ total_for_account(b.s, owner) < UserCommodityLimit)
                       => LET o == mint(b.s, owner, info)
                          IN o.res = "Ok" /\ total(o.s) = total(Ledger)

\* C9 witness: a mint was rejected at the global cap, for an account below
\* its own cap, after an earlier burn had made room once.
C9_Witness ==
    /\ last.op = "mint" /\ last.res = "TooManyCommodities"
    /\ Total = CommodityLimit
    /\ Burned > 0
    /\ \E a \in Accounts \ {DefaultAccount} : TotalForAccount[a] = 1
    /\ \E a \in Accounts : TotalForAccount[a] = 0

\* C10: the ledger-level burn of an id that exists succeeds whichever account
\* owns it: total() drops by 1, burned() rises by 1, the owner's count drops
\* by 1, the id leaves the owner's list and AccountForCommodity, and no
\* other account changes; NonexistentCommodity is only for absent ids.
C10_BurnExisting ==
    \A id \in Ids :
        LET b == burn(Ledger, id)
            owner == AccountForCommodity[id]
        IN /\ b.res = "NonexistentCommodity" => ~Exists(Ledger, id)
           /\ Exists(Ledger, id)
              => /\ b.res = "Ok"
                 /\ total(b.s) = total(Ledger) - 1
                 /\ burned(b.s) = burned(Ledger) + 1
                 /\ total_for_account(b.s, owner)
                        = total_for_account(Ledger, owner) - 1
                 /\ Assets(b.s, owner) = Assets(Ledger, owner) \ {id}
                 /\ ~Exists(b.s, id)
                 /\ OthersUnchanged(Ledger, b.s, {owner})

\* C11: the ledger-level transfer of an existing id, whichever account owns
\* it, to a different account below its cap succeeds: the id moves to dest,
\* the old owner's count drops by 1 and its list loses the id, dest's count
\* rises by 1 and its list gains the id, and total, burned and every third
\* account are unchanged.
C11_TransferExisting ==
    \A id \in Ids, dest \in Accounts :
        LET owner == AccountForCommodity[id]
            t == transfer(Ledger, dest, id)
        IN (/\ Exists(Ledger, id)
            /\ dest # owner
            /\ total_for_account(Ledger, dest) < UserCommodityLimit)
           => /\ t.res = "Ok"
              /\ Exists(t.s, id) /\ owner_of(t.s, id) = dest
              /\ total_for_account(t.s, owner)
                     = total_for_account(Ledger, owner) - 1
              /\ Assets(t.s, owner) = Assets(Ledger, owner) \ {id}
              /\ total_for_account(t.s, dest)
                     = total_for_account(Ledger, dest) + 1
              /\ Assets(t.s, dest) = Assets(Ledger, dest) \cup {id}
              /\ total(t.s) = total(Ledger)
              /\ burned(t.s) = burned(Ledger)
              /\ OthersUnchanged(Ledger, t.s, {owner, dest})

\* C12: a self-transfer of an existing id succeeds in every reachable state,
\* also when the owner is at its cap, and leaves the five storage items as
\* they were.
C12_SelfTransfer ==
    \A id \in Ids :
        Exists(Ledger, id)
        => LET t == transfer(Ledger, AccountForCommodity[id], id)
           IN t.res = "Ok" /\ t.s = Ledger

\* C13: a transfer of an existing id to a destination at its cap fails with
\* TooManyCommoditiesForAccount and changes no state.
C13_TransferToFull ==
    \A id \in Ids, dest \in Accounts :
        (/\ Exists(Ledger, id)
         /\ total_for_account(Ledger, dest) >= UserCommodityLimit)
        => LET t == transfer(Ledger, dest, id)
           IN t.res = "TooManyCommoditiesForAccount" /\ t.s = Ledger

\* C14: at the ledger level burn and transfer of an id that is not in
\* AccountForCommodity fail with NonexistentCommodity and change no state;
\* transfer does so for every destination, also one at its cap.
C14_Nonexistent ==
    \A id \in Ids :
        ~Exists(Ledger, id)
        => /\ LET b == burn(Ledger, id)
              IN b.res = "NonexistentCommodity" /\ b.s = Ledger /\ ~b.fatal
           /\ \A dest \in Accounts :
                LET t == transfer(Ledger, dest, id)
                IN t.res = "NonexistentCommodity" /\ t.s = Ledger /\ ~t.fatal

\* C14 witness: a transfer was rejected as nonexistent while no asset belongs
\* to the default account (so the id was absent), one id has been burned and
\* some account is at its cap.
C14_Witness ==
    /\ last.op = "transfer" /\ last.res = "NonexistentCommodity"
    /\ TotalForAccount[DefaultAccount] = 0
    /\ Burned > 0
    /\ \E a \in Accounts : TotalForAccount[a] >= UserCommodityLimit

\* C15: for an id owned by A and another account B below its cap,
\* transfer(B, id) and then transfer(A, id) both succeed and restore A's
\* list and both counts, with total and burned unchanged throughout.
C15_RoundTrip ==
    \A id \in Ids, B \in Accounts :
        LET A == AccountForCommodity[id]
            t1 == transfer(Ledger, B, id)
            t2 == transfer(t1.s, A, id)
        IN (/\ Exists(Ledger, id)
            /\ B # A
            /\ total_for_account(Ledger, B) < UserCommodityLimit)
           => /\ t1.res = "Ok" /\ t2.res = "Ok"
              /\ commodities_for_account(t2.s, A)
                     = commodities_for_account(Ledger, A)
              /\ total_for_account(t2.s, A) = total_for_account(Ledger, A)
              /\ total_for_account(t2.s, B) = total_for_account(Ledger, B)
              /\ total(t1.s) = total(Ledger) /\ total(t2.s) = total(Ledger)
              /\ burned(t1.s) = burned(Ledger) /\ burned(t2.s) = burned(Ledger)

\* C16: through the dispatchables, burn and transfer of an existing id by a
\* signed caller other than its owner fail with NotCommodityOwner, change no
\* storage and deposit no event; so no dispatched call changes owner_of of an
\* existing id unless it is signed by the current owner.
C16_OnlyOwner ==
    /\ \A g \in Origins, id \in Ids :
         LET notOwner == /\ Exists(Ledger, id)
                         /\ g.signed
                         /\ g.who # owner_of(Ledger, id)
             asOwner == Exists(Ledger, id) /\ g = Signed(owner_of(Ledger, id))
         IN /\ LET d == dispatch_burn(Ledger, g, id)
               IN /\ notOwner => /\ d.o.res = "NotCommodityOwner"
                                 /\ d.o.s = Ledger
                                 /\ d.events = <<>>
                  /\ \/ d.o.s.AccountForCommodity = AccountForCommodity
                     \/ /\ asOwner
                        /\ \A other \in Ids \ {id} :
                             d.o.s.AccountForCommodity[other]
                                 = AccountForCommodity[other]
            /\ \A dest \in Accounts :
                 LET d == dispatch_transfer(Ledger, g, dest, id)
                 IN /\ notOwner => /\ d.o.res = "NotCommodityOwner"
                                   /\ d.o.s = Ledger
                                   /\ d.events = <<>>
                    /\ \/ d.o.s.AccountForCommodity = AccountForCommodity
                       \/ /\ asOwner
                          /\ \A other \in Ids \ {id} :
                               d.o.s.AccountForCommodity[other]
                                   = AccountForCommodity[other]
    /\ \A g \in Origins, a \in Accounts, info \in Infos :
         LET d == dispatch_mint(Ledger, g, a, info)
         IN \A id \in Ids :
              Exists(Ledger, id)
              => d.o.s.AccountForCommodity[id] = AccountForCommodity[id]

\* C16 witness: a dispatched call was rejected with NotCommodityOwner while
\* the default account and two other accounts hold assets.
C16_Witness ==
    /\ last.level = "dispatch" /\ last.res = "NotCommodityOwner"
    /\ deposited = <<>>
    /\ \A a \in Accounts : TotalForAccount[a] > 0

\* C17: through the dispatchables, burn and transfer of an id that does not
\* exist fail with NotCommodityOwner for every signed caller and change no
\* state.
C17_DispatchNonexistent ==
    \A id \in Ids, a \in Accounts :
        ~Exists(Ledger, id)
        => /\ LET d == dispatch_burn(Ledger, Signed(a), id)
              IN d.o.res = "NotCommodityOwner" /\ d.o.s = Ledger
           /\ \A dest \in Accounts :
                LET d == dispatch_transfer(Ledger, Signed(a), dest, id)
                IN d.o.res = "NotCommodityOwner" /\ d.o.s = Ledger

\* C18: owner_of of an id that does not exist differs from owner_of of every
\* id that exists, whichever account owns it.
C18_AbsenceDistinct ==
    \A id \in Ids, id2 \in Ids :
        (~Exists(Ledger, id) /\ Exists(Ledger, id2))
        => owner_of(Ledger, id) # owner_of(Ledger, id2)

\* C19: the fatal paths are unreachable: execution never aborts; whenever
\* burn or transfer passes its existence check the binary search finds the id
\* in the owner's list and no counter is 0 before its decrement; and neither
\* mint nor transfer (self-transfer included) finds the id already in the
\* list it inserts into.
C19_NoFatalPath ==
    /\ ~panicked
    /\ \A id \in Ids :
        LET owner == owner_of(Ledger, id)
            r == binary_search(CommoditiesForAccount[owner], id)
        IN owner # DefaultAccount
           => /\ r.found
              /\ Total > 0 /\ TotalForAccount[owner] > 0
              /\ ~burn(Ledger, id).fatal
              /\ \A dest \in Accounts :
                   /\ ~transfer(Ledger, dest, id).fatal
                   /\ transfer_check_user(Ledger, dest)
                      => LET removed ==
                                 [CommoditiesForAccount EXCEPT
                                     ![owner] = vec_remove(@, r.pos)]
                         IN ~binary_search(removed[dest], id).found
    /\ \A owner \in Accounts, info \in Infos :
        (/\ mint_check_new(Ledger, hash_of(info))
         /\ mint_check_user(Ledger, owner)
         /\ mint_check_total(Ledger))
        => /\ ~binary_search(CommoditiesForAccount[owner], hash_of(info)).found
           /\ ~mint(Ledger, owner, info).fatal

\* C19 witness: a transfer has succeeded after a burn, and an account holds
\* two assets, so searches ran on lists of length 1 and 2.
C19_Witness ==
    /\ last.op = "transfer" /\ last.res = "Ok"
    /\ Burned > 0
    /\ \E a \in Accounts \ {DefaultAccount} :
           Len(CommoditiesForAccount[a]) = 2
    /\ ~panicked

\* C20: mint reports the first failing check in a fixed order:
\* CommodityExists when the id exists, whatever the caps; else
\* TooManyCommoditiesForAccount when the owner is at its cap, also when the
\* global cap is reached; else TooManyCommodities when the global cap is
\* reached; and a failed mint changes no storage item.
C20_MintCheckOrder ==
    \A owner \in Accounts, info \in Infos :
        LET o == mint(Ledger, owner, info)
            exists == Exists(Ledger, hash_of(info))
            userFull == total_for_account(Ledger, owner) >= UserCommodityLimit
            allFull == total(Ledger) >= CommodityLimit
        IN /\ exists => o.res = "CommodityExists"
           /\ (~exists /\ userFull) => o.res = "TooManyCommoditiesForAccount"
           /\ (~exists /\ ~userFull /\ allFull) => o.res = "TooManyCommodities"
           /\ (~exists /\ ~userFull /\ ~allFull) => o.res = "Ok"
           /\ o.res # "Ok" => (o.s = Ledger /\ ~o.fatal)

\* C20 witness: a mint of a new id was rejected for its owner's cap while
\* the global cap was reached too.
C20_Witness ==
    /\ last.op = "mint" /\ last.res = "TooManyCommoditiesForAccount"
    /\ Total >= CommodityLimit

\* Every dispatched call deposits exactly its one event when it succeeds,
\* built from the updated ledger's result, and none when it fails.
OneEventPerMutation ==
    /\ \A g \in Origins, a \in Accounts, info \in Infos :
         LET d == dispatch_mint(Ledger, g, a, info)
         IN d.events = IF d.o.res = "Ok"
                       THEN <<[kind |-> "Minted", id |-> hash_of(info),
                               account |-> a]>>
                       ELSE <<>>
    /\ \A g \in Origins, id \in Ids :
         /\ LET d == dispatch_burn(Ledger, g, id)
            IN d.events = IF d.o.res = "Ok"
                          THEN <<[kind |-> "Burned", id |-> id,
                                  account |-> DefaultAccount]>>
                          ELSE <<>>
         /\ \A dest \in Accounts :
              LET d == dispatch_transfer(Ledger, g, dest, id)
              IN d.events = IF d.o.res = "Ok"
                            THEN <<[kind |-> "Transferred", id |-> id,
                                    account |-> dest]>>
                            ELSE <<>>

\* The latest Minted or Transferred event about an existing id names its owner.
LatestEventNamesOwner ==
    \A id \in Ids :
        (Exists(Ledger, id) /\ event_owner[id] # NoEntry)
        => event_owner[id] = owner_of(Ledger, id)

\* C21 as stated: every successful dispatchable deposits exactly one event
\* (Minted(id, owner), Burned(id), Transferred(id, dest)) and a failed one
\* none; hence over any run the number of Minted events minus the number of
\* Burned events equals total(), and the latest Minted/Transferred event of
\* an existing id names owner_of(id).
C21_EventsMatchLedger ==
    /\ OneEventPerMutation
    /\ event_count["Minted"] - event_count["Burned"] = Total
    /\ LatestEventNamesOwner

\* C21 amended: the same, except that the genesis build mints without
\* events: the number of Minted events minus the number of Burned events
\* equals total() minus the number of assets the genesis build minted, and
\* the owner is named for every existing id that has an event.
C21_EventsMatchLedgerAfterGenesis ==
    /\ OneEventPerMutation
    /\ event_count["Minted"] - event_count["Burned"] = Total - minted.genesis
    /\ LatestEventNamesOwner

\* C21 witness: after a genesis build with an asset, dispatched mints and a
\* dispatched burn have deposited their events, and an asset is left.
C21_Witness ==
    /\ last.level = "dispatch" /\ last.res = "Ok"
    /\ deposited = <<"Burned">>
    /\ minted.genesis > 0
    /\ event_count["Minted"] > 1
    /\ Total > 0

\* C22: in every reachable state total() + burned() is the number of
\* successful mints so far; burned() rises by exactly 1 on a successful burn
\* and is unchanged by a failed burn and by every mint and transfer, so it
\* never decreases.
C22_SupplyAccounting ==
    /\ total(Ledger) + burned(Ledger) = minted.total
    /\ \A id \in Ids :
         LET b == burn(Ledger, id)
         IN burned(b.s) = burned(Ledger) + (IF b.res = "Ok" THEN 1 ELSE 0)
    /\ \A a \in Accounts, info \in Infos :
         burned(mint(Ledger, a, info).s) = burned(Ledger)
    /\ \A dest \in Accounts, id \in Ids :
         burned(transfer(Ledger, dest, id).s) = burned(Ledger)

\* C22 witness: a mint has succeeded after a burn, with more mints made than
\* the global cap admits at once.
C22_Witness ==
    /\ last.op = "mint" /\ last.res = "Ok"
    /\ Burned > 0
    /\ minted.total > CommodityLimit

\* C23: a successful burn removes the id, and a mint of the same info, at
\* once or in any later state where the id is still absent, to an account
\* below its cap with the global cap not reached, is not rejected with
\* CommodityExists: it succeeds and recreates the same id for that account,
\* while burned() keeps the earlier burn.
C23_BurnFreesId ==
    /\ \A id \in Ids :
         LET b == burn(Ledger, id)
         IN b.res = "Ok"
            => /\ ~Exists(b.s, id)
               /\ \A a \in Accounts, info \in Infos :
                    (/\ hash_of(info) = id
                     /\ total_for_account(b.s, a) < UserCommodityLimit
                     /\ total(b.s) < CommodityLimit)
                    => LET m == mint(b.s, a, info)
                       IN /\ m.res = "Ok" /\ m.id = id
                          /\ Exists(m.s, id) /\ owner_of(m.s, id) = a
                          /\ burned(m.s) = burned(Ledger) + 1
    /\ \A a \in Accounts, info \in Infos :
         (/\ ~Exists(Ledger, hash_of(info))
          /\ total_for_account(Ledger, a) < UserCommodityLimit
          /\ total(Ledger) < CommodityLimit)
         => LET m == mint(Ledger, a, info)
            IN /\ m.res = "Ok" /\ m.id = hash_of(info)
               /\ burned(m.s) = burned(Ledger)

\* C23 witness: a mint has just recreated the id that the call before it
\* burned, and burned() still counts that burn.
C23_Witness ==
    /\ last.op = "mint" /\ last.res = "Ok" /\ last.again
    /\ Exists(Ledger, last.ret)
    /\ Burned > 0

====
